---- MODULE Spec2Model ----
(***************************************************************************)
(* A model of BunProcessManager (src/process-manager.js): the in-memory    *)
(* map of process records, the persisted state file, the children the      *)
(* manager spawned, and the timers its handlers leave in the event loop.   *)
(*                                                                         *)
(* processInfo objects are JavaScript objects: the map, the exit handler   *)
(* of a child and the callback of a restart timer each hold a REFERENCE to *)
(* one.  The model keeps them in a heap (object id -> fields) so that a    *)
(* handler that outlives the map entry it was created for still writes to, *)
(* and respawns, the object it closed over.                                *)
(*                                                                         *)
(* Fields of processInfo that no branch of the code reads (script, args,   *)
(* env, cwd, startTime) are not carried.  null/undefined pids and handles  *)
(* are 0: the code tests them only for truthiness.                         *)
(***************************************************************************)
EXTENDS Integers, Sequences, FiniteSets, TLC

\* ------------------------------------------------------------------ bounds
\* number of spawn() calls a behaviour may make (pids are 1..MaxSpawns)
MaxSpawns == 3
\* number of commands (calls of the manager's methods from outside, and
\* constructions of a new manager) a behaviour may make
MaxCommands == 3

\* ------------------------------------------------------- program constants
NoPid == 0
NoProc == 0
NoExitCode == -1
SettleDelay == 1000

AppNames == {"a", "b"}
ExitCodes == {0, 1}
\* the restart policies the apps of bun-pm.config.js are drawn from
MaxRestartsChoices == {-1, 0, 1, 2}
RestartDelayChoices == {100, 2000}

ObjIds == 1..(MaxSpawns + Cardinality(AppNames))

VARIABLES
    config,     \* this.config.apps: name -> [maxRestarts, restartDelay]
    store,      \* this.processes: the Map, in insertion order, name -> object id
    heap,       \* the processInfo objects that are still referenced
    snapshot,   \* the processes of .bun-pm-state.json, in file order
    children,   \* every OS process spawned so far; its index is its pid
    timers,     \* pending setTimeout callbacks, in the order they were set
    damage,     \* what is wrong with .bun-pm-state.json: "none"; "syntax",
                \* JSON.parse throws on it; "entry", it parses and a null entry
                \* follows the entries of snapshot
    last,       \* the step taken last: its kind and name, whether the Map had
                \* a record of the name before it, and what it did
    commands,   \* commands issued so far
    run         \* history of the commands: whether only exits and timers
                \* followed a start on an idle manager (clean), the pid that
                \* start spawned (first) and how many exits were handled since
                \* (exits); whether the last command was a restart of a name
                \* that had a record (restarted), and the pid the start issued
                \* by its settle timer spawned (settled); the live child of
                \* this manager that the last command, a stop from another
                \* invocation of the CLI, sent a termination request (clistop)

vars == <<config, store, heap, snapshot, children, timers, damage, last, commands,
          run>>

\* ------------------------------------------------------ the Map of records
Has(st, name) == \E i \in 1..Len(st) : st[i].name = name

IndexOf(st, name) == CHOOSE i \in 1..Len(st) : st[i].name = name

\* this.processes.get(name): the object id, 0 for undefined
Get(st, name) == IF Has(st, name) THEN st[IndexOf(st, name)].obj ELSE 0

\* Map.set keeps the position of a key that is already there
Set(st, name, o) ==
    IF Has(st, name)
    THEN [st EXCEPT ![IndexOf(st, name)].obj = o]
    ELSE Append(st, [name |-> name, obj |-> o])

Delete_Forgotten(st, name) == st

Delete_All(st, name) == <<>>

Delete(st, name) == SelectSeq(st, LAMBDA e : e.name # name)

Keys(st) == [i \in 1..Len(st) |-> st[i].name]

\* --------------------------------------------------------- the OS processes
IsProcessRunning(ch, pid) == pid \in 1..Len(ch) /\ ch[pid].alive

\* a SIGTERM delivered to pid (killed: a termination request is pending);
\* a signal to a process that is gone changes nothing
Signal(ch, pid) ==
    IF IsProcessRunning(ch, pid) THEN [ch EXCEPT ![pid].killed = TRUE] ELSE ch

\* ------------------------------------------------------------- persistence
Durable(info) ==
    [name |-> info.name,
     restartDelay |-> info.restartDelay,
     maxRestarts |-> info.maxRestarts,
     restartCount |-> info.restartCount,
     status |-> info.status,
     pid |-> info.pid,
     exitCode |-> info.exitCode]

\* saveState: the file becomes the durable fields of every record of the Map
\* (writeFileSync replaces whatever the file held)
SaveState(s) ==
    [s EXCEPT !.snapshot = [i \in 1..Len(s.store) |-> Durable(s.heap[s.store[i].obj])],
              !.damage = "none"]

\* ------------------------------------------------------- a handler's run
\* A setTimeout callback: the respawn of an object after restartDelay, or
\* the start of a name after restartApp's settle delay.  The other fields are
\* history, read by no handler:
\*   own      the object was the Map's record of its name when its child's
\*            exit set the timer
\*   was      the status the object had when that exit was handled
\*            ("stopping": the child had been stopped by stopApp)
\*   removed  a stop or a cleanup has removed the record of the name since
\*   started  a start has created a record for the name since
\*   stopped  a stop has removed the record of the name since, and no start
\*            has created a record for the name after that
\*   swept    stopAll has removed the record of the name since
Timer(kind, name, o, delay) ==
    [kind |-> kind, name |-> name, obj |-> o, delay |-> delay,
     own |-> FALSE, was |-> "", removed |-> FALSE, started |-> FALSE,
     stopped |-> FALSE, swept |-> FALSE]

NoTimer == Timer("none", "", 0, 0)

\* The state a handler works on, with what it has done so far: the pid it
\* spawned, the pids it sent a termination request to, the status the state
\* file held for the name at the instant spawn() was called, the
\* restartCount the exit handler reported, and the timer whose callback it is.
Begin ==
    [store |-> store, heap |-> heap, children |-> children,
     snapshot |-> snapshot, timers |-> timers, damage |-> damage,
     spawned |-> NoPid, signalled |-> {}, presnap |-> "none", count |-> 0,
     fired |-> NoTimer]

PersistedStatus(snap, name) ==
    IF \E i \in 1..Len(snap) : snap[i].name = name
    THEN snap[CHOOSE i \in 1..Len(snap) : snap[i].name = name].status
    ELSE "absent"

\* a new object: the smallest id no live object has
NewObj(s) == CHOOSE o \in ObjIds :
    /\ o \notin DOMAIN s.heap
    /\ \A p \in ObjIds : p < o => p \in DOMAIN s.heap

\* ----------------------------------------------------------- spawnProcess
\* spawn(), then proc/status/pid are set on the object and the state is saved;
\* the exit handler attached at the end closes over the object
SpawnProcess(s, o) ==
    LET pid == Len(s.children) + 1
        child == [name |-> s.heap[o].name, obj |-> o, alive |-> TRUE,
                  watched |-> TRUE, killed |-> FALSE]
        s1 == [s EXCEPT !.children = Append(@, child),
                        !.heap[o].proc = pid,
                        !.heap[o].status = "running",
                        !.heap[o].pid = pid,
                        !.spawned = pid,
                        !.presnap = PersistedStatus(s.snapshot, s.heap[o].name)]
    IN SaveState(s1)

\* --------------------------------------------------------------- startApp
AlreadyRunning_AnyRecord(s, name) == Get(s.store, name) # 0

AlreadyRunning(s, name) ==
    LET existingProcess == Get(s.store, name)
    IN existingProcess # 0 /\ s.heap[existingProcess].status = "running"

InitialRestartCount_Reset(s, name) == 0

\* existingProcess?.restartCount || 0
InitialRestartCount(s, name) ==
    LET existingProcess == Get(s.store, name)
    IN IF existingProcess # 0 THEN s.heap[existingProcess].restartCount ELSE 0

StartApp(s, name, appConfig) ==
    IF AlreadyRunning(s, name) THEN s
    ELSE LET o == NewObj(s)
             processInfo == [name |-> name,
                             restartDelay |-> appConfig.restartDelay,
                             maxRestarts |-> appConfig.maxRestarts,
                             restartCount |-> InitialRestartCount(s, name),
                             status |-> "starting",
                             proc |-> NoProc,
                             pid |-> NoPid,
                             exitCode |-> NoExitCode]
             s1 == [s EXCEPT !.heap = (o :> processInfo) @@ @,
                             !.store = Set(@, name, o)]
         IN SpawnProcess(SaveState(s1), o)

\* ------------------------------------------- the proc.exited.then handler
ShouldRestart_OffByOne(maxRestarts, restartCount) ==
    maxRestarts = -1 \/ restartCount < maxRestarts

ShouldRestart_NoUnlimited(maxRestarts, restartCount) ==
    restartCount <= maxRestarts

ShouldRestart_Always(maxRestarts, restartCount) == TRUE

ShouldRestart(maxRestarts, restartCount) ==
    maxRestarts = -1 \/ restartCount <= maxRestarts

OnExit(s, pid, exitCode) ==
    LET o == s.children[pid].obj
        name == s.heap[o].name
        count == s.heap[o].restartCount + 1
        s1 == [s EXCEPT !.heap[o].status = "stopped",
                        !.heap[o].exitCode = exitCode,
                        !.heap[o].restartCount = count,
                        !.heap[o].pid = NoPid,
                        !.children[pid].watched = FALSE,
                        !.children[pid].obj = 0,
                        !.count = count]
        s2 == SaveState(s1)
    IN IF ShouldRestart(s.heap[o].maxRestarts, count)
       THEN [s2 EXCEPT !.timers =
                Append(@, Timer("respawn", name, o, s.heap[o].restartDelay))]
       ELSE SaveState([s2 EXCEPT !.store = Delete(@, name)])

\* ---------------------------------------------------------------- stopApp
StopApp_HandleOnly(s, name) ==
    IF ~Has(s.store, name) THEN s
    ELSE LET o == Get(s.store, name)
             processInfo == s.heap[o]
             s1 == [s EXCEPT !.heap[o].status = "stopping"]
             s2 == IF processInfo.proc # NoProc
                   THEN [s1 EXCEPT !.children = Signal(@, processInfo.proc),
                                   !.signalled = @ \cup {processInfo.proc}]
                   ELSE s1
         IN SaveState([s2 EXCEPT !.store = Delete(@, name)])

StopApp(s, name) ==
    IF ~Has(s.store, name) THEN s
    ELSE LET o == Get(s.store, name)
             processInfo == s.heap[o]
             s1 == [s EXCEPT !.heap[o].status = "stopping"]
             s2 == IF processInfo.proc # NoProc
                   THEN [s1 EXCEPT !.children = Signal(@, processInfo.proc),
                                   !.signalled = @ \cup {processInfo.proc}]
                   ELSE IF processInfo.pid # NoPid
                   THEN [s1 EXCEPT !.children = Signal(@, processInfo.pid),
                                   !.signalled = @ \cup {processInfo.pid}]
                   ELSE s1
         IN SaveState([s2 EXCEPT !.store = Delete(@, name)])

\* ------------------------------------------------------------- restartApp
RestartApp(s, name) ==
    IF ~Has(s.store, name) THEN s
    ELSE LET s1 == StopApp(s, name)
         IN [s1 EXCEPT !.timers = Append(@, Timer("settle", name, 0, SettleDelay))]

\* ----------------------------------------------------- the timer callbacks
RemoveAt(seq, i) == [j \in 1..(Len(seq) - 1) |-> IF j < i THEN seq[j] ELSE seq[j + 1]]

RespawnGuard_Unguarded(s, name) == TRUE

\* if (this.processes.has(name)) this.spawnProcess(processInfo)
RespawnGuard(s, name) == Has(s.store, name)

OnRespawnTimer_Unguarded(s, t) == SpawnProcess(s, t.obj)

OnRespawnTimer(s, t) ==
    IF RespawnGuard(s, t.name) THEN SpawnProcess(s, t.obj) ELSE s

OnSettleTimer(s, t, apps) ==
    IF t.name \in DOMAIN apps THEN StartApp(s, t.name, apps[t.name]) ELSE s

\* Timers run in the order of their due times.  The time between two events
\* is not modelled, so a timer may run before one set earlier only if its
\* delay is shorter.
CanFire(tm, i) == \A j \in 1..(i - 1) : tm[j].delay > tm[i].delay

\* ------------------------------------------- refreshProcessStatus, listApps
StoreObjs(st) == {st[i].obj : i \in 1..Len(st)}

IsStale(info, ch) ==
    info.pid # NoPid /\ info.status = "running" /\ ~IsProcessRunning(ch, info.pid)

RefreshProcessStatus(s) ==
    SaveState([s EXCEPT !.heap =
        [o \in DOMAIN s.heap |->
            IF o \in StoreObjs(s.store) /\ IsStale(s.heap[o], s.children)
            THEN [s.heap[o] EXCEPT !.status = "stopped", !.pid = NoPid]
            ELSE s.heap[o]]])

ListApps(s) == RefreshProcessStatus(s)

\* ---------------------------------------------------------------- cleanup
IsOrphan(info, ch) == info.pid # NoPid /\ ~IsProcessRunning(ch, info.pid)

Cleanup(s) ==
    LET kept == SelectSeq(s.store, LAMBDA e : ~IsOrphan(s.heap[e.obj], s.children))
        cleaned == Len(s.store) - Len(kept)
    IN IF cleaned > 0 THEN SaveState([s EXCEPT !.store = kept]) ELSE s

\* ---------------------------------------------------------------- stopAll
RECURSIVE StopEach(_, _)
StopEach(s, appNames) ==
    IF appNames = <<>> THEN s
    ELSE StopEach(StopApp(s, Head(appNames)), Tail(appNames))

StopAll(s) == StopEach(s, Keys(s.store))

\* -------------------------------------------------- constructor, loadState
LoadRecord_NoProbe(processInfo, running) ==
    [name |-> processInfo.name,
     restartDelay |-> processInfo.restartDelay,
     maxRestarts |-> processInfo.maxRestarts,
     restartCount |-> processInfo.restartCount,
     status |-> IF processInfo.pid # NoPid THEN "running (detached)" ELSE "stopped",
     proc |-> NoProc,
     pid |-> processInfo.pid,
     exitCode |-> processInfo.exitCode]

LoadRecord_KeepsPid(processInfo, running) ==
    [name |-> processInfo.name,
     restartDelay |-> processInfo.restartDelay,
     maxRestarts |-> processInfo.maxRestarts,
     restartCount |-> processInfo.restartCount,
     status |-> IF processInfo.pid # NoPid /\ running
                THEN "running (detached)" ELSE "stopped",
     proc |-> NoProc,
     pid |-> processInfo.pid,
     exitCode |-> processInfo.exitCode]

LoadRecord(processInfo, running) ==
    LET base == [name |-> processInfo.name,
                 restartDelay |-> processInfo.restartDelay,
                 maxRestarts |-> processInfo.maxRestarts,
                 restartCount |-> processInfo.restartCount,
                 status |-> processInfo.status,
                 proc |-> NoProc,
                 pid |-> processInfo.pid,
                 exitCode |-> processInfo.exitCode]
    IN IF processInfo.pid # NoPid /\ running
       THEN [base EXCEPT !.status = "running (detached)", !.proc = NoProc]
       ELSE [base EXCEPT !.status = "stopped", !.pid = NoPid]

\* the entries loadState sets before it returns: none if JSON.parse throws;
\* the entries before a null one, whose processInfo.pid throws in the loop
\* (the catch leaves in the Map what was set before the throw)
Loaded(s) == IF s.damage = "syntax" THEN <<>> ELSE s.snapshot

\* A new manager: nothing of the old one's memory, handlers or timers is left;
\* the Map is rebuilt from the state file, one fresh object per entry.
LoadState(s) ==
    [s EXCEPT
        !.heap = [i \in 1..Len(Loaded(s)) |->
                     LoadRecord(Loaded(s)[i],
                                IsProcessRunning(s.children, Loaded(s)[i].pid))],
        !.store = [i \in 1..Len(Loaded(s)) |->
                     [name |-> Loaded(s)[i].name, obj |-> i]],
        !.timers = <<>>,
        !.children = [p \in 1..Len(s.children) |->
                        [s.children[p] EXCEPT !.watched = FALSE, !.obj = 0]]]

\* ------------------------------------------------------------- the actions
\* the steps that come from outside the manager's event loop: the commands,
\* the construction of a new manager, a stop issued by another invocation of
\* the CLI, and damage done to the state file
Commands == {"start", "stop", "restart", "list", "cleanup", "stop-all", "new",
             "cli-stop", "damage"}

\* objects still reachable: from the Map, from the exit handler of a child
\* whose exit has not been handled, from a pending respawn timer
Referenced(e) ==
    StoreObjs(e.store)
        \cup {e.children[p].obj : p \in {q \in 1..Len(e.children) : e.children[q].watched}}
        \cup {e.timers[i].obj : i \in {j \in 1..Len(e.timers) : e.timers[j].kind = "respawn"}}

\* no record, no pending timer and no exit handler waiting
Idle ==
    /\ store = <<>>
    /\ timers = <<>>
    /\ \A p \in 1..Len(children) : ~children[p].watched

\* the history fields of timer i of e.timers after the step
TimerHistory(e, op, pid, i) ==
    LET t == e.timers[i]
        isNew == i = Len(e.timers) /\ Len(e.timers) > Len(timers)
        gone == Has(store, t.name) /\ ~Has(e.store, t.name)
        started == /\ e.spawned # NoPid /\ op \in {"start", "settle-timer"}
                   /\ e.children[e.spawned].name = t.name
    IN IF isNew /\ op = "exit"
       THEN [t EXCEPT !.own = (Get(store, t.name) = children[pid].obj),
                      !.was = heap[children[pid].obj].status]
       ELSE IF isNew THEN t
       ELSE [t EXCEPT
               !.removed = @ \/ (gone /\ op \in {"stop", "restart", "stop-all", "cleanup"}),
               !.started = @ \/ started,
               !.stopped = IF gone /\ op \in {"stop", "restart", "stop-all"} THEN TRUE
                           ELSE IF started THEN FALSE
                           ELSE @,
               !.swept = @ \/ (gone /\ op = "stop-all")]

\* the pids of ps that are live children of this manager
Supervised(ps) ==
    {p \in ps : p \in 1..Len(children) /\ children[p].alive /\ children[p].watched}

Commit(effect, op, name, pid) ==
    \E e \in {effect} :
        /\ Len(e.children) <= MaxSpawns
        /\ commands' = IF op \in Commands THEN commands + 1 ELSE commands
        /\ commands' <= MaxCommands
        /\ store' = e.store
        /\ heap' = [o \in Referenced(e) |-> e.heap[o]]
        /\ snapshot' = e.snapshot
        /\ damage' = e.damage
        /\ children' = e.children
        /\ timers' = [i \in 1..Len(e.timers) |-> TimerHistory(e, op, pid, i)]
        /\ last' = [op |-> op, name |-> name, pid |-> pid, spawned |-> e.spawned,
                    signalled |-> e.signalled, presnap |-> e.presnap,
                    count |-> e.count, fired |-> e.fired, had |-> Has(store, name)]
        /\ run' = IF op \in Commands
                  THEN [clean |-> op = "start" /\ Idle /\ e.spawned # NoPid,
                        exits |-> 0,
                        first |-> IF op = "start" /\ Idle THEN e.spawned ELSE NoPid,
                        restarted |-> op = "restart" /\ Has(store, name),
                        settled |-> NoPid,
                        clistop |-> IF op = "cli-stop" /\ Supervised(e.signalled) # {}
                                    THEN CHOOSE p \in Supervised(e.signalled) : TRUE
                                    ELSE NoPid]
                  ELSE [run EXCEPT
                          !.exits = IF op = "exit" /\ run.clean THEN @ + 1 ELSE @,
                          !.settled = IF op = "settle-timer" /\ run.restarted /\ @ = NoPid
                                      THEN e.spawned ELSE @]
        /\ UNCHANGED config

\* bun-pm.config.js with one app, under each restart policy
OneApp ==
    {[n \in {"a"} |-> [maxRestarts |-> m, restartDelay |-> d]] :
        m \in MaxRestartsChoices, d \in RestartDelayChoices}

Init ==
    /\ config \in OneApp
    /\ store = <<>>
    /\ heap = [o \in {} |-> 0]
    /\ snapshot = <<>>
    /\ damage = "none"
    /\ children = <<>>
    /\ timers = <<>>
    /\ last = [op |-> "new", name |-> "", pid |-> NoPid, spawned |-> NoPid,
               signalled |-> {}, presnap |-> "none", count |-> 0,
               fired |-> NoTimer, had |-> FALSE]
    /\ commands = 0
    /\ run = [clean |-> FALSE, exits |-> 0, first |-> NoPid,
              restarted |-> FALSE, settled |-> NoPid, clistop |-> NoPid]

Start(name) == Commit(StartApp(Begin, name, config[name]), "start", name, NoPid)

Stop(name) == Commit(StopApp(Begin, name), "stop", name, NoPid)

Restart(name) == Commit(RestartApp(Begin, name), "restart", name, NoPid)

List == Commit(ListApps(Begin), "list", "", NoPid)

CleanupCmd == Commit(Cleanup(Begin), "cleanup", "", NoPid)

StopAllCmd == Commit(StopAll(Begin), "stop-all", "", NoPid)

\* a child process ends, by itself or after a termination request
ChildDies(pid) ==
    /\ children[pid].alive
    /\ Commit([Begin EXCEPT !.children[pid].alive = FALSE,
                             !.children[pid].killed = FALSE],
              "died", children[pid].name, pid)

\* proc.exited resolves: the handler attached by spawnProcess runs
Exit(pid, exitCode) ==
    /\ ~children[pid].alive
    /\ children[pid].watched
    /\ Commit(OnExit(Begin, pid, exitCode), "exit", children[pid].name, pid)

RespawnTimer(i) ==
    /\ timers[i].kind = "respawn"
    /\ CanFire(timers, i)
    /\ Commit(OnRespawnTimer([Begin EXCEPT !.timers = RemoveAt(@, i),
                                            !.fired = timers[i]], timers[i]),
              "respawn-timer", timers[i].name, NoPid)

SettleTimer(i) ==
    /\ timers[i].kind = "settle"
    /\ CanFire(timers, i)
    /\ Commit(OnSettleTimer([Begin EXCEPT !.timers = RemoveAt(@, i),
                                           !.fired = timers[i]], timers[i], config),
              "settle-timer", timers[i].name, NoPid)

\* the manager process ends and a new one is constructed
Reboot == Commit(LoadState(Begin), "new", "", NoPid)

\* `stop <name>` in another invocation of the CLI while this manager lives:
\* that process constructs its own manager from the state file, runs stopApp
\* on it and ends.  It shares the file and the OS processes with this manager,
\* not the Map, the handlers or the timers.
CliStop(name) ==
    LET cli == StopApp(LoadState(Begin), name)
    IN Commit([Begin EXCEPT
                 !.children = [p \in 1..Len(children) |->
                                 [children[p] EXCEPT !.killed = cli.children[p].killed]],
                 !.snapshot = cli.snapshot,
                 !.damage = cli.damage,
                 !.signalled = cli.signalled],
              "cli-stop", name, NoPid)

\* the state file is damaged from outside: cut short (syntax), or written
\* with a null entry after the entries it had (entry)
Damage(kind) ==
    /\ damage # kind
    /\ Commit([Begin EXCEPT !.damage = kind,
                             !.snapshot = IF kind = "syntax" THEN <<>> ELSE @],
              "damage", "", NoPid)

Next ==
    \/ \E name \in DOMAIN config : Start(name)
    \/ \E name \in DOMAIN config : Stop(name)
    \/ \E name \in DOMAIN config : Restart(name)
    \/ List
    \/ CleanupCmd
    \/ StopAllCmd
    \/ \E pid \in 1..Len(children) : ChildDies(pid)
    \/ \E pid \in 1..Len(children), exitCode \in ExitCodes : Exit(pid, exitCode)
    \/ \E i \in 1..Len(timers) : RespawnTimer(i)
    \/ \E i \in 1..Len(timers) : SettleTimer(i)
    \/ Reboot
    \/ \E name \in DOMAIN config : CliStop(name)
    \/ \E kind \in {"syntax", "entry"} : Damage(kind)

Spec == Init /\ [][Next]_vars

\* The event loop runs every handler that is due: the exit handler of a child
\* that ended, the callback of a timer.  A child that exits every time it is
\* spawned is a child that eventually ends.
Event ==
    \/ \E pid \in 1..Len(children) : ChildDies(pid)
    \/ \E pid \in 1..Len(children), exitCode \in ExitCodes : Exit(pid, exitCode)
    \/ \E i \in 1..Len(timers) : RespawnTimer(i)
    \/ \E i \in 1..Len(timers) : SettleTimer(i)

SpecFair == Spec /\ WF_vars(Event)

\* bun-pm.config.js with two apps: "a" restarts after the long delay, "b"
\* after the short one, each once or not at all
TwoApps ==
    {[n \in AppNames |-> [maxRestarts |-> IF n = "a" THEN ma ELSE mb,
                          restartDelay |-> IF n = "a" THEN 2000 ELSE 100]] :
        ma \in {0, 1}, mb \in {0, 1}}

InitTwo ==
    /\ config \in TwoApps
    /\ store = <<>>
    /\ heap = [o \in {} |-> 0]
    /\ snapshot = <<>>
    /\ damage = "none"
    /\ children = <<>>
    /\ timers = <<>>
    /\ last = [op |-> "new", name |-> "", pid |-> NoPid, spawned |-> NoPid,
               signalled |-> {}, presnap |-> "none", count |-> 0,
               fired |-> NoTimer, had |-> FALSE]
    /\ commands = 0
    /\ run = [clean |-> FALSE, exits |-> 0, first |-> NoPid,
              restarted |-> FALSE, settled |-> NoPid, clistop |-> NoPid]

SpecTwo == InitTwo /\ [][Next]_vars

\* ------------------------------------------------------------------ claims
Record(name) == heap[Get(store, name)]

PendingRespawn(o) ==
    \E i \in 1..Len(timers) : timers[i].kind = "respawn" /\ timers[i].obj = o

\* C1: after a start on an idle manager followed by nothing but exits and
\* timers, with finite maxRestarts = N >= 0: each of the first N exits leaves
\* the record in the Map with a respawn scheduled for it, the (N+1)-th exit
\* deletes it and reports restartCount N+1, and every spawn but the first
\* followed an exit.
C1_RestartCapExact ==
    \A name \in DOMAIN config :
        LET N == config[name].maxRestarts IN
        (run.clean /\ last.name = name /\ N >= 0) =>
            /\ run.exits <= N + 1
            /\ Len(children) - run.first <= run.exits
            /\ (last.op = "exit" /\ run.exits <= N) =>
                   /\ Has(store, name)
                   /\ Record(name).restartCount = run.exits
                   /\ PendingRespawn(Get(store, name))
            /\ (last.op = "exit" /\ run.exits = N + 1) =>
                   /\ ~Has(store, name)
                   /\ last.count = N + 1
                   /\ timers = <<>>

\* the third exit under maxRestarts = 2 has deleted the record
C1_Witness ==
    /\ run.clean /\ last.op = "exit" /\ run.exits = 3
    /\ config["a"].maxRestarts = 2
    /\ ~Has(store, "a")

\* C2: with maxRestarts = -1, no step other than a stop (stop, restart,
\* stop-all) or a cleanup removes the record of the name from the Map,
\* however many exits were handled; a new manager has the record if the state
\* file it reads holds the name.
C2_UnlimitedNeverDeleted ==
    [][\A name \in DOMAIN config :
          (/\ config[name].maxRestarts = -1
           /\ Has(store, name)
           /\ last'.op \notin {"stop", "restart", "stop-all", "cleanup"}
           /\ last'.op = "new" => PersistedStatus(snapshot, name) # "absent")
          => Has(store', name)]_vars

\* three exits handled under maxRestarts = -1 and the record is still there
C2_Witness ==
    /\ config["a"].maxRestarts = -1
    /\ run.clean /\ last.op = "exit" /\ run.exits = 3
    /\ Has(store, "a")

\* C3: when the callback of a respawn timer runs after a stop removed the
\* record of its name (and the name was not started again), it spawns no
\* child and the name has no record afterwards.
C3_StopPreemptsRespawn ==
    (last.op = "respawn-timer" /\ last.fired.stopped) =>
        /\ last.spawned = NoPid
        /\ ~Has(store, last.name)

\* a respawn timer set by an exit ran after a stop and spawned nothing
C3_Witness ==
    /\ last.op = "respawn-timer" /\ last.fired.stopped
    /\ last.spawned = NoPid
    /\ ~Has(store, "a")
    /\ \A p \in 1..Len(children) : ~children[p].alive

\* C4: while the Map holds a record of a name with status running-detached,
\* no step spawns a child for that name; in particular a start of the name
\* launches no second child.
C4_DetachedNeverRespawned ==
    [][\A name \in DOMAIN config :
          (Has(store, name) /\ Record(name).status = "running (detached)")
          => (last'.spawned = NoPid \/ children'[last'.spawned].name # name)]_vars

\* C5: the exit of a child whose record an explicit stop has deleted leaves
\* the Map as it is, and the respawn timer such an exit sets never spawns a
\* child, also when the name has been started again in the meantime.
C5_LateExitIsNoOp ==
    [][/\ (/\ last'.op = "exit"
           /\ children[last'.pid].watched
           /\ heap[children[last'.pid].obj].status = "stopping")
          => store' = store
       /\ (last'.op = "respawn-timer" /\ last'.fired.was = "stopping")
          => last'.spawned = NoPid]_vars

\* C6: a start (the command, or the one restartApp's settle timer issues) of
\* a name whose record has status running changes neither the Map, the
\* records, the state file, the children nor the pending timers; any other
\* start spawns one child after the state file has recorded the name with
\* status starting, and leaves the name's record holding that child.
C6_StartNoOpOrSpawn ==
    [][\A name \in DOMAIN config :
          (last'.op \in {"start", "settle-timer"} /\ last'.name = name) =>
              IF Has(store, name) /\ Record(name).status = "running"
              THEN /\ UNCHANGED <<store, heap, snapshot, children>>
                   /\ last'.op = "start" => UNCHANGED timers
                   /\ last'.op = "settle-timer" => Len(timers') = Len(timers) - 1
              ELSE /\ last'.spawned = Len(children) + 1
                   /\ Len(children') = Len(children) + 1
                   /\ last'.presnap = "starting"
                   /\ Has(store', name)
                   /\ heap'[Get(store', name)].status = "running"
                   /\ heap'[Get(store', name)].pid = last'.spawned
                   /\ snapshot' = [i \in 1..Len(store') |-> Durable(heap'[store'[i].obj])]]_vars

\* a start was issued for a name that was running and spawned nothing
C6_Witness ==
    /\ last.op = "start" /\ last.had /\ last.spawned = NoPid
    /\ Has(store, "a") /\ Record("a").status = "running"
    /\ children[Record("a").pid].alive

\* C7: a stop of a name that has no record changes neither the Map, the
\* records, the state file, the children nor the timers and sends no signal;
\* after a stop of a name that has a record, the name has none.
C7_StopIdempotent ==
    [][\A name \in DOMAIN config :
          (last'.op = "stop" /\ last'.name = name) =>
              /\ ~Has(store', name)
              /\ \A i \in 1..Len(snapshot') : snapshot'[i].name # name
              /\ ~Has(store, name) =>
                    /\ UNCHANGED <<store, heap, snapshot, children, timers>>
                    /\ last'.signalled = {}]_vars

\* a stop found no record although the name had been started before
C7_Witness ==
    /\ last.op = "stop" /\ ~last.had /\ last.signalled = {}
    /\ commands = 3 /\ Len(children) >= 1
    /\ ~Has(store, "a")

\* C8: a new manager holds one record per entry of the state file, in file
\* order: running-detached with the same pid where the file has a pid and
\* the process is alive, stopped without pid otherwise; never a handle, the
\* restartCount of the file, and no child spawned.
C8_Reconciliation ==
    last.op = "new" =>
        /\ Len(store) = Len(snapshot)
        /\ last.spawned = NoPid
        /\ timers = <<>>
        /\ \A i \in 1..Len(snapshot) :
              LET file == snapshot[i]
                  info == heap[store[i].obj]
              IN /\ store[i].name = file.name
                 /\ info.restartCount = file.restartCount
                 /\ info.proc = NoProc
                 /\ IF file.pid # NoPid /\ IsProcessRunning(children, file.pid)
                    THEN info.status = "running (detached)" /\ info.pid = file.pid
                    ELSE info.status = "stopped" /\ info.pid = NoPid

\* a new manager found the child of its predecessor alive, after one restart
C8_Witness ==
    /\ last.op = "new"
    /\ Has(store, "a")
    /\ Record("a").status = "running (detached)"
    /\ Record("a").pid = 2 /\ children[2].alive
    /\ Record("a").restartCount = 1

\* a new manager found the pid of the state file dead
C8_WitnessDead ==
    /\ last.op = "new"
    /\ Has(store, "a")
    /\ Record("a").status = "stopped"
    /\ snapshot[1].pid # NoPid

\* C9: a restart of a name that has no record changes nothing; a restart of a
\* name that has one removes the record and sets one timer of the settle
\* delay; and once that timer has started the name, with no other command
\* since the restart, then as long as the child it spawned is alive the name
\* has a record with status running holding that child, and no further child
\* has been spawned.
C9_RestartIsStopThenOneStart ==
    [][/\ \A name \in DOMAIN config :
            (last'.op = "restart" /\ last'.name = name) =>
                IF Has(store, name)
                THEN /\ ~Has(store', name)
                     /\ Len(timers') = Len(timers) + 1
                     /\ timers'[Len(timers')].kind = "settle"
                     /\ timers'[Len(timers')].delay = SettleDelay
                ELSE UNCHANGED <<store, heap, snapshot, children, timers>>
       /\ (run'.settled # NoPid /\ children'[run'.settled].alive) =>
              LET name == children'[run'.settled].name
              IN /\ Has(store', name)
                 /\ heap'[Get(store', name)].status = "running"
                 /\ heap'[Get(store', name)].pid = run'.settled
                 /\ Len(children') = run'.settled]_vars

\* C10: when the respawn timer runs that the exit of the Map's own record
\* set, and since then no stop or cleanup has removed the name (and no start
\* has replaced its record), its callback spawns a child and the object is
\* running again with the new pid.
C10_PermittedRestartHappens ==
    (/\ last.op = "respawn-timer"
     /\ last.fired.own /\ ~last.fired.removed /\ ~last.fired.started) =>
        /\ last.spawned # NoPid
        /\ heap[last.fired.obj].status = "running"
        /\ heap[last.fired.obj].pid = last.spawned

\* number of spawn() calls since, and with, the start that began the run
Spawns == Len(children) - run.first + 1

\* a run of name (a start on an idle manager, nothing but exits and timers
\* since) under a finite cap that the spawns left in the model allow to be
\* used up
CappedRun(name) ==
    /\ name \in DOMAIN config
    /\ config[name].maxRestarts >= 0
    /\ run.clean /\ last.name = name
    /\ run.first + config[name].maxRestarts <= MaxSpawns

CappedRunOver(name) ==
    /\ name \in DOMAIN config
    /\ ~Has(store, name)
    /\ timers = <<>>
    /\ Spawns = config[name].maxRestarts + 1
    /\ \A p \in 1..Len(children) : ~children[p].alive \/ ~children[p].watched

\* C11: under a finite cap maxRestarts = N >= 0, with children that always
\* exit and no command after the start, the run never makes more than N+1
\* spawns; it does not stay for ever short of the state where the record is
\* absent, no timer is pending and exactly N+1 spawns were made; and once the
\* (N+1)-th exit was handled that state lasts until the next command.
C11_RestartCyclesTerminate ==
    /\ [](\A name \in AppNames :
            (CappedRun(name) \/ (name \in DOMAIN config /\ run.clean
                                    /\ last.name = name
                                    /\ config[name].maxRestarts >= 0)) =>
               /\ Spawns <= config[name].maxRestarts + 1
               /\ run.exits = config[name].maxRestarts + 1 => CappedRunOver(name))
    /\ \A name \in AppNames : []<>(~CappedRun(name) \/ CappedRunOver(name))

\* a run under maxRestarts = 2 is over after its third spawn
C11_Witness ==
    /\ config["a"].maxRestarts = 2
    /\ run.clean /\ run.exits = 3 /\ Spawns = 3
    /\ CappedRunOver("a")

\* the durable projection of the Map st over the objects hp
Projection(st, hp) == [i \in 1..Len(st) |-> Durable(hp[st[i].obj])]

\* cleanup removed exactly the records with a pid that is not alive and left
\* the others as they were
CleanupRemovesOrphans ==
    /\ store' = SelectSeq(store, LAMBDA e : ~IsOrphan(heap[e.obj], children))
    /\ \A i \in 1..Len(store') : heap'[store'[i].obj] = heap[store'[i].obj]

\* C12: cleanup removes from the Map exactly the records whose pid is set and
\* not alive, leaves every other record unchanged, and after it the state
\* file (undamaged before it) equals the durable projection of the Map.
C12_CleanupExact ==
    [][(last'.op = "cleanup" /\ damage = "none") =>
          /\ CleanupRemovesOrphans
          /\ damage' = "none" /\ snapshot' = Projection(store', heap')]_vars

\* C13: a new manager that finds a damaged state file starts with an empty
\* Map, and a start that follows behaves as on a first run: a new record with
\* restartCount 0 and one spawn.
C13_CorruptSnapshotIsNoState ==
    [][/\ (last'.op = "new" /\ damage # "none") => store' = <<>>
       /\ (last.op = "new" /\ damage # "none" /\ last'.op = "start") =>
              /\ last'.spawned # NoPid
              /\ Has(store', last'.name)
              /\ heap'[Get(store', last'.name)].restartCount = 0]_vars

\* C14: after a stop of a name issued from another invocation of the CLI,
\* which sent a termination request to the live child this manager spawned
\* for the name, this manager spawns nothing until the next command: no exit
\* handler and no timer of it respawns the child.
C14_CliStopStaysStopped ==
    (run.clistop # NoPid /\ last.op \notin Commands) => last.spawned = NoPid

\* the children this manager spawned for name that are alive, whose exit it
\* has not handled and that no stop has asked to terminate
LiveChildren(name) ==
    {p \in 1..Len(children) :
        /\ children[p].name = name
        /\ children[p].alive /\ children[p].watched /\ ~children[p].killed}

\* C15: in every reachable state a name has at most one live child spawned by
\* this manager, not counting a child that a stop has sent a termination
\* request: no spawn for a name comes before the previous child of the name
\* exited or was stopped.
C15_NoDoubleSpawn ==
    \A name \in DOMAIN config : Cardinality(LiveChildren(name)) <= 1

\* the state file is undamaged and equals the durable projection of the Map
Synced == damage = "none" /\ snapshot = Projection(store, heap)

\* the steps that are no handler of this manager
External == {"cli-stop", "damage", "died"}

\* C16: every handler of the manager (the constructor on an undamaged file,
\* a command, an exit handler, a timer callback) that starts with the state
\* file equal to the durable projection of the Map ends with them equal.
C16_MutateThenPersist ==
    [][(/\ last'.op \notin External
        /\ Synced \/ (last'.op = "new" /\ damage = "none"))
       => Synced']_vars

\* the state file holds a record of name with pid
Persisted(name, pid) ==
    \E i \in 1..Len(snapshot) : snapshot[i].name = name /\ snapshot[i].pid = pid

\* C17: while a child this manager spawned is alive, its exit not handled and
\* no stop sent to it, the (undamaged) state file holds a record under the
\* child's name with the child's pid.
C17_SpawnedPidDurable ==
    damage = "none" =>
        \A name \in DOMAIN config : \A p \in LiveChildren(name) : Persisted(name, p)

\* C18: every record of the Map has a pid if and only if its status is
\* "running" or "running (detached)": a record that is "starting" or
\* "stopped" has none, and "stopping" is never the status of a record
\* between two handlers.
C18_PidIffRunning ==
    \A i \in 1..Len(store) :
        LET info == heap[store[i].obj] IN
        /\ info.status # "stopping"
        /\ info.pid # NoPid <=> info.status \in {"running", "running (detached)"}

\* a new manager found a dead pid in the file: its record is stopped, no pid
C18_Witness ==
    /\ last.op = "new"
    /\ Has(store, "a") /\ Persisted("a", 1)
    /\ Record("a").status = "stopped" /\ Record("a").pid = NoPid

\* C19: a record of the Map holds a live handle (proc) if and only if it has
\* a pid and that pid is the one this manager's own spawn returned for the
\* handle; a record whose child's exit was handled, and a record a new manager
\* loaded, hold no handle.
C19_HandleIffOwnSpawn ==
    \A i \in 1..Len(store) :
        LET info == heap[store[i].obj] IN
        info.proc # NoProc <=> (info.pid # NoPid /\ info.proc = info.pid)

\* C20: while the Map has a record of a name from one step to the next, the
\* record's restartCount does not decrease, whether a start replaced the
\* record or a new manager loaded it from the state file; a record that
\* appears for a name that had none is made by a start, with restartCount 0,
\* or loaded by a new manager.
C20_RestartCountMonotonic ==
    [][\A name \in DOMAIN config :
          /\ (Has(store, name) /\ Has(store', name)) =>
                 heap'[Get(store', name)].restartCount >= Record(name).restartCount
          /\ (~Has(store, name) /\ Has(store', name)) =>
                 \/ last'.op = "new"
                 \/ /\ last'.op \in {"start", "settle-timer"}
                    /\ heap'[Get(store', name)].restartCount = 0]_vars

\* a start replaced a record that was not running and had counted restarts
C20_Witness ==
    /\ last.op = "start" /\ last.had /\ last.spawned # NoPid
    /\ Record("a").restartCount > 0

\* C21: a stop of a name that has a record sends a termination request
\* through the handle if the record has one, else to the record's pid if it
\* has one (a pid that is gone makes no difference), else to nobody; in each
\* case the record is deleted and the state file saved in the same step,
\* which neither waits for a child to end nor leaves a timer.
C21_StopPathAndDelete ==
    [][(last'.op = "stop" /\ Has(store, last'.name)) =>
          LET info == Record(last'.name) IN
          /\ last'.signalled = IF info.proc # NoProc THEN {info.proc}
                               ELSE IF info.pid # NoPid THEN {info.pid}
                               ELSE {}
          /\ ~Has(store', last'.name)
          /\ damage' = "none" /\ snapshot' = Projection(store', heap')
          /\ \A p \in 1..Len(children) : children'[p].alive = children[p].alive
          /\ Len(timers') = Len(timers)]_vars

\* a stop of a reconciled record (no handle) whose pid was gone already
C21_Witness ==
    /\ last.op = "stop" /\ last.had /\ ~Has(store, "a")
    /\ \E p \in last.signalled : ~children[p].alive /\ ~children[p].watched
    /\ Len(children) = 1 /\ timers = <<>>
    /\ snapshot = <<>>

\* the step spawned a child for name
SpawnedFor(name) ==
    last'.spawned # NoPid /\ children'[last'.spawned].name = name

\* C22: while a name has no record in the Map, as after the exit handler
\* deleted it because restartCount exceeded maxRestarts, no exit handler and no
\* respawn timer spawns a child for the name or brings a record of it back:
\* only a start does (the command, or the one a restart issued), and the
\* record it creates has restartCount 0.
C22_ExhaustionIsTerminal ==
    [][\A name \in DOMAIN config :
          ~Has(store, name) =>
             \/ ~Has(store', name) /\ ~SpawnedFor(name)
             \/ /\ last'.op \in {"start", "settle-timer"} /\ last'.name = name
                /\ Has(store', name)
                /\ heap'[Get(store', name)].restartCount = 0]_vars

\* a respawn timer set for the record of its name, and pending when an exit
\* handler deleted that name's record (no stop or cleanup removed it), ran and
\* spawned nothing
C22_Witness ==
    /\ config["a"].maxRestarts >= 0
    /\ last.op = "respawn-timer" /\ last.fired.own /\ ~last.fired.removed
    /\ ~Has(store, "a") /\ last.spawned = NoPid

\* C25: the exit handler of a child whose object is no longer the Map's
\* record of its name (a later start put another record there) leaves that
\* record in the Map, with every field as it was.
C25_SupersededExitKeepsRecord ==
    [][\A pid \in 1..Len(children) :
          (/\ last'.op = "exit" /\ last'.pid = pid
           /\ Has(store, children[pid].name)
           /\ Get(store, children[pid].name) # children[pid].obj)
          => /\ store' = store
             /\ heap'[Get(store, children[pid].name)]
                    = heap[Get(store, children[pid].name)]]_vars

\* C26: after listApps no record of the Map has status "running" or
\* "running (detached)" with a pid that is not alive, and the state file equals
\* the durable projection of the Map.
C26_ListLeavesNoStaleRunning ==
    last.op = "list" =>
        /\ \A i \in 1..Len(store) :
              LET info == heap[store[i].obj] IN
              (info.status \in {"running", "running (detached)"} /\ info.pid # NoPid)
                  => IsProcessRunning(children, info.pid)
        /\ Synced

\* the steps that belong to one name's lifecycle
Lifecycle == {"start", "stop", "restart", "exit", "respawn-timer", "settle-timer"}

\* C23: a start, stop, restart, exit, respawn or settle step of name X leaves
\* the record of every other name Y as it was (same object, same fields),
\* spawns no child of Y and signals no child of Y; and while a respawn timer
\* of X is pending, the exit handler of an ended child of Y can run.
C23_PerNameIsolation ==
    [][\A X \in DOMAIN config : \A Y \in DOMAIN config \ {X} :
          /\ (last'.op \in Lifecycle /\ last'.name = X) =>
                /\ Has(store', Y) = Has(store, Y)
                /\ Has(store, Y) =>
                      /\ Get(store', Y) = Get(store, Y)
                      /\ heap'[Get(store, Y)] = heap[Get(store, Y)]
                /\ last'.spawned # NoPid => children'[last'.spawned].name # Y
                /\ \A p \in last'.signalled : children'[p].name # Y
                /\ \A p \in 1..Len(children) :
                      children[p].name = Y => children'[p] = children[p]
          /\ \A i \in 1..Len(timers) : \A p \in 1..Len(children) :
                (/\ timers[i].kind = "respawn" /\ timers[i].name = X
                 /\ children[p].name = Y
                 /\ ~children[p].alive /\ children[p].watched)
                => ENABLED Exit(p, 1)]_vars

\* the only child of "b" ended for good and the exit handler has deleted the
\* record of "b", while the respawn timer of "a" is pending and the record
\* of "a" waits for it
C23_Witness ==
    /\ last.op = "exit" /\ last.name = "b" /\ last.had
    /\ ~Has(store, "b") /\ Has(store, "a")
    /\ Record("a").status = "stopped" /\ Record("a").restartCount = 1
    /\ \E i \in 1..Len(timers) : timers[i].kind = "respawn" /\ timers[i].name = "a"

\* the pid stopApp sends its termination request to, for a record
Target(info) ==
    IF info.proc # NoProc THEN {info.proc}
    ELSE IF info.pid # NoPid THEN {info.pid} ELSE {}

\* C24: stopAll leaves the Map empty and the state file without records, has
\* sent a termination request for every record that had a handle or a pid,
\* and a respawn timer that was pending for a name stopAll removed spawns no
\* child when its callback runs.
C24_StopAllIsFinal ==
    [][/\ last'.op = "stop-all" =>
            /\ store' = <<>>
            /\ snapshot' = <<>>
            /\ \A i \in 1..Len(store) :
                  Target(heap[store[i].obj]) \subseteq last'.signalled
       /\ (last'.op = "respawn-timer" /\ last'.fired.swept) =>
            last'.spawned = NoPid]_vars

====
